---- MODULE Spec2Model ----
(***************************************************************************)
(* Metadata reconciliation and DXF annotation pipeline.                    *)
(*                                                                         *)
(*  - thickness inference   : STEPParser.analyze_distances                 *)
(*  - consistency validator : validate_metadata_consistency, process_part  *)
(*  - patch engine          : apply_patch and its helpers                  *)
(*                                                                         *)
(* Lengths are integers: a measured distance is in thousandths of a mm     *)
(* (calculate_distance_between_faces rounds to 3 decimals), a rounded      *)
(* thickness in hundredths of a mm.  Text is a sequence of one-character   *)
(* strings, so that strip(), upper(), slicing and formatting are computed. *)
(***************************************************************************)
EXTENDS Integers, Sequences, FiniteSets, TLC

VARIABLES
    \* thickness inference
    samples,        \* zip(face_pairs, all_distances): sequence of [d, a]
    setOrder,       \* iteration order of the Python set `candidates`
    thkPc,          \* "call" | "done"
    thkResult,      \* (thickness, hist[thickness], method)
    \* process_part
    part_data,      \* the part's record loaded from the parsed results
    ppPc,           \* "start" | "ask_llm" | "returned"
    validation,     \* (is_consistent, unified_metadata, error_message)
    llmCalls,       \* number of ask_llm calls made for the part
    ppResult,       \* the dict process_part returns
    \* apply_patch
    lines,          \* the document as loaded
    patch,          \* the patch dict
    modified,       \* the working copy of the lines
    apPc,           \* position in apply_patch
    apIdx,          \* index of the entry the current loop is at (from 1)
    section         \* (start, end) located for the current category

thkVars == <<samples, setOrder, thkPc, thkResult>>

valVars == <<part_data, ppPc, validation, llmCalls, ppResult>>

patchVars == <<lines, patch, modified, apPc, apIdx, section>>

vars == <<samples, setOrder, thkPc, thkResult,
          part_data, ppPc, validation, llmCalls, ppResult,
          lines, patch, modified, apPc, apIdx, section>>

(***************************************************************************)
(* Generic helpers                                                         *)
(***************************************************************************)
RECURSIVE SumSeq(_)
SumSeq(s) == IF s = <<>> THEN 0 ELSE Head(s) + SumSeq(Tail(s))

Abs(x) == IF x < 0 THEN -x ELSE x

SetMin(S) == CHOOSE x \in S : \A y \in S : x <= y
SetMax(S) == CHOOSE x \in S : \A y \in S : y <= x

RECURSIVE AscSeq(_)
AscSeq(S) == IF S = {} THEN <<>> ELSE <<SetMin(S)>> \o AscSeq(S \ {SetMin(S)})

RECURSIVE DescSeq(_)
DescSeq(S) == IF S = {} THEN <<>> ELSE <<SetMax(S)>> \o DescSeq(S \ {SetMax(S)})

\* dict / Counter key order: keys in order of first insertion
RECURSIVE InsertionOrder(_)
InsertionOrder(s) ==
    IF s = <<>> THEN <<>>
    ELSE LET init == InsertionOrder(SubSeq(s, 1, Len(s) - 1))
             last == s[Len(s)]
         IN  IF \E i \in DOMAIN init : init[i] = last THEN init
             ELSE Append(init, last)

(***************************************************************************)
(* Thickness inference: STEPParser.analyze_distances                       *)
(***************************************************************************)
MIN_SHEET_THICKNESS == 600      \* 0.6 mm, in thousandths
MAX_SHEET_THICKNESS == 25000    \* 25 mm, in thousandths

\* round(distance, 2): thousandths -> hundredths.  The inputs of the model
\* have no third decimal 5, where the binary value decides the direction.
Round2(d) == (d + 5) \div 10

\* InRange without the upper limit
InRange_NoUpper(d) == MIN_SHEET_THICKNESS <= d

InRange(d) == MIN_SHEET_THICKNESS <= d /\ d <= MAX_SHEET_THICKNESS

Retained(s) == SelectSeq(s, LAMBDA x : InRange(x.d))

filtered_distances(s) ==
    LET r == Retained(s) IN [i \in DOMAIN r |-> Round2(r[i].d)]

\* thickness_clusters[t]: summed area of the retained samples rounding to t
thickness_clusters(s, t) ==
    LET r == Retained(s)
    IN  SumSeq([i \in DOMAIN r |-> IF Round2(r[i].d) = t THEN r[i].a ELSE 0])

\* hist[t] of Counter(filtered_distances)
hist(s, t) ==
    LET fd == filtered_distances(s)
    IN  Cardinality({i \in DOMAIN fd : fd[i] = t})

\* max(iterable, key=...): the first element no other element exceeds;
\* key[i] is the key of keys[i]
FirstMax(keys, key) ==
    LET best == {i \in DOMAIN keys : \A j \in DOMAIN keys : key[j] <= key[i]}
    IN  keys[SetMin(best)]

min_thickness(s) ==
    LET fd == filtered_distances(s) IN SetMin({fd[i] : i \in DOMAIN fd})

\* hist.most_common(1)[0][0]
mode_thickness(s) ==
    LET keys == InsertionOrder(filtered_distances(s))
    IN  FirstMax(keys, [i \in DOMAIN keys |-> hist(s, keys[i])])

\* max(thickness_clusters.items(), key=lambda x: x[1])[0]
area_thickness(s) ==
    LET keys == InsertionOrder(filtered_distances(s))
    IN  FirstMax(keys, [i \in DOMAIN keys |-> thickness_clusters(s, keys[i])])

\* calculate_confidence_score, multiplied by 10 * total * max_area * min_thickness
\* (all positive), so that scores compare as exact integers:
\*   0.4 * count/total + 0.3 * area/max_area + 0.3 * (1 - |t - min| / min)
ScaledScore(s, t) ==
    LET fd    == filtered_distances(s)
        total == Len(fd)
        cand  == {fd[i] : i \in DOMAIN fd}
        maxA  == SetMax({thickness_clusters(s, u) : u \in cand})
        mn    == min_thickness(s)
    IN  4 * hist(s, t) * maxA * mn
        + 3 * thickness_clusters(s, t) * total * mn
        + 3 * (mn - Abs(t - mn)) * total * maxA

\* iteration order of set(filtered_distances), which is the insertion order
\* of the dict `scores`
Candidates(s, ord) ==
    LET fd == filtered_distances(s)
        S  == {fd[i] : i \in DOMAIN fd}
    IN  IF ord = "asc" THEN AscSeq(S) ELSE DescSeq(S)

\* BestScore that takes the first candidate, whatever its score
BestScore_First(s, ord) == Candidates(s, ord)[1]

\* max(scores.items(), key=lambda x: x[1])[0]
BestScore(s, ord) ==
    LET keys == Candidates(s, ord)
    IN  FirstMax(keys, [i \in DOMAIN keys |-> ScaledScore(s, keys[i])])

\* Python None as a thickness (every real thickness is at least 60)
NoneThickness == -1

\* (None, 0, "No valid thickness found in range 0.6-25 mm")
NoResult == [value |-> NoneThickness, count |-> 0,
             method |-> "No valid thickness found in range"]

\* (None, 0, "No distances found")
NoDistances == [value |-> NoneThickness, count |-> 0, method |-> "No distances found"]

\* analyze_distances with the mode rule tried before the area rule
analyze_distances_ModeFirst(s, ord) ==
    IF s = <<>> THEN NoDistances
    ELSE IF filtered_distances(s) = <<>> THEN NoResult
    ELSE
      LET mn    == min_thickness(s)
          md    == mode_thickness(s)
          ar    == area_thickness(s)
          total == Len(filtered_distances(s))
          pick  ==
            IF hist(s, md) * 10 > 4 * total /\ Abs(md - ar) < 10
              THEN <<md, "mode">>
            ELSE IF ar * 10 < 14 * mn
              THEN <<ar, "area_dominant">>
            ELSE IF mn < 150 /\ md * 10 > 15 * mn
              THEN <<mn, "min">>
            ELSE <<BestScore(s, ord), "highest_confidence">>
      IN  [value |-> pick[1], count |-> hist(s, pick[1]), method |-> pick[2]]

\* analyze_distances with the mode rule tried before the min rule
analyze_distances_ModeBeforeMin(s, ord) ==
    IF s = <<>> THEN NoDistances
    ELSE IF filtered_distances(s) = <<>> THEN NoResult
    ELSE
      LET mn    == min_thickness(s)
          md    == mode_thickness(s)
          ar    == area_thickness(s)
          total == Len(filtered_distances(s))
          pick  ==
            IF ar * 10 < 14 * mn
              THEN <<ar, "area_dominant">>
            ELSE IF hist(s, md) * 10 > 4 * total /\ Abs(md - ar) < 10
              THEN <<md, "mode">>
            ELSE IF mn < 150 /\ md * 10 > 15 * mn
              THEN <<mn, "min">>
            ELSE <<BestScore(s, ord), "highest_confidence">>
      IN  [value |-> pick[1], count |-> hist(s, pick[1]), method |-> pick[2]]

analyze_distances(s, ord) ==
    IF s = <<>> THEN NoDistances
    ELSE IF filtered_distances(s) = <<>> THEN NoResult
    ELSE
      LET mn    == min_thickness(s)
          md    == mode_thickness(s)
          ar    == area_thickness(s)
          total == Len(filtered_distances(s))
          pick  ==
            IF ar * 10 < 14 * mn                 \* area_min_ratio < 1.4
              THEN <<ar, "area_dominant">>
            ELSE IF mn < 150 /\ md * 10 > 15 * mn  \* min < 1.5 and mode_min_ratio > 1.5
              THEN <<mn, "min">>
            ELSE IF hist(s, md) * 10 > 4 * total /\ Abs(md - ar) < 10
              THEN <<md, "mode">>
            ELSE <<BestScore(s, ord), "highest_confidence">>
      IN  [value |-> pick[1], count |-> hist(s, pick[1]), method |-> pick[2]]


(***************************************************************************)
(* Thickness of the STEP parser that main.py runs:                         *)
(* StepParser._calculate_thickness.  Its distances are rounded to 3        *)
(* decimals and not clustered: values are in thousandths of a mm.          *)
(***************************************************************************)
VALID_MIN == 500      \* 0.5 mm
VALID_MAX == 25000    \* 25.0 mm

valid_distances(s) ==
    LET all == [i \in DOMAIN s |-> s[i].d]
    IN  SelectSeq(all, LAMBDA d : VALID_MIN <= d /\ d <= VALID_MAX)

\* (best_thickness, count, "Mode"), or None with the reason
calculate_thickness(s) ==
    IF s = <<>>
      THEN [value |-> NoneThickness, count |-> 0, method |-> "No parallel faces"]
    ELSE IF valid_distances(s) = <<>>
      THEN [value |-> NoneThickness, count |-> 0, method |-> "No valid thickness"]
    ELSE
      LET vd    == valid_distances(s)
          keys  == InsertionOrder(vd)
          count == [i \in DOMAIN keys |-> Cardinality({j \in DOMAIN vd : vd[j] = keys[i]})]
          best  == FirstMax(keys, count)
      IN  [value |-> best,
           count |-> Cardinality({j \in DOMAIN vd : vd[j] = best}),
           method |-> "Mode"]
(***************************************************************************)
(* Text: a string is a sequence of one-character strings                   *)
(***************************************************************************)
Digits == <<"0", "1", "2", "3", "4", "5", "6", "7", "8", "9">>

IsDigit(c) == \E i \in DOMAIN Digits : Digits[i] = c

DigitVal(c) == (CHOOSE i \in DOMAIN Digits : Digits[i] = c) - 1

\* str(n) of a non-negative int
RECURSIVE NatToChars(_)
NatToChars(n) ==
    IF n < 10 THEN <<Digits[n + 1]>>
    ELSE NatToChars(n \div 10) \o <<Digits[(n % 10) + 1]>>

\* int(text) of a digit string
RECURSIVE CharsToNat(_)
CharsToNat(s) ==
    IF s = <<>> THEN 0
    ELSE 10 * CharsToNat(SubSeq(s, 1, Len(s) - 1)) + DigitVal(s[Len(s)])

\* str(n) of an int
IntToChars(n) == IF n < 0 THEN <<"-">> \o NatToChars(-n) ELSE NatToChars(n)

RECURSIVE DropTrailingZeros(_)
DropTrailingZeros(s) ==
    IF s /= <<>> /\ s[Len(s)] = "0" THEN DropTrailingZeros(SubSeq(s, 1, Len(s) - 1))
    ELSE s

\* str(x) of a float x held in thousandths: 3000 -> "3.0", 2010 -> "2.01"
FloatToChars(n) ==
    LET m    == Abs(n)
        f    == m % 1000
        frac == DropTrailingZeros(<<Digits[(f \div 100) + 1],
                                    Digits[((f \div 10) % 10) + 1],
                                    Digits[(f % 10) + 1]>>)
    IN  (IF n < 0 THEN <<"-">> ELSE <<>>)
        \o NatToChars(m \div 1000) \o <<".">>
        \o (IF frac = <<>> THEN <<"0">> ELSE frac)

\* str.strip(): leading and trailing white space removed
IsSpace(c) == c = " "

RECURSIVE LStrip(_)
LStrip(s) == IF s /= <<>> /\ IsSpace(Head(s)) THEN LStrip(Tail(s)) ELSE s

RECURSIVE RStrip(_)
RStrip(s) ==
    IF s /= <<>> /\ IsSpace(s[Len(s)]) THEN RStrip(SubSeq(s, 1, Len(s) - 1)) ELSE s

Strip(s) == RStrip(LStrip(s))

\* str.upper() / str.lower(), on the letters that occur in lower case
LowerLetters == <<"a", "c", "d", "e", "i", "l", "m", "n", "o", "r", "s", "t", "y">>
UpperLetters == <<"A", "C", "D", "E", "I", "L", "M", "N", "O", "R", "S", "T", "Y">>

UpperChar(c) ==
    IF \E i \in DOMAIN LowerLetters : LowerLetters[i] = c
    THEN UpperLetters[CHOOSE i \in DOMAIN LowerLetters : LowerLetters[i] = c]
    ELSE c

LowerChar(c) ==
    IF \E i \in DOMAIN UpperLetters : UpperLetters[i] = c
    THEN LowerLetters[CHOOSE i \in DOMAIN UpperLetters : UpperLetters[i] = c]
    ELSE c

Upper(s) == [i \in DOMAIN s |-> UpperChar(s[i])]
Lower(s) == [i \in DOMAIN s |-> LowerChar(s[i])]

\* str.startswith(prefix)
StartsWith(s, prefix) ==
    Len(prefix) <= Len(s) /\ SubSeq(s, 1, Len(prefix)) = prefix

\* f"{text:>w}": right-aligned in a field of w characters
RECURSIVE PadLeft(_, _)
PadLeft(s, w) == IF Len(s) >= w THEN s ELSE PadLeft(<<" ">> \o s, w)

(***************************************************************************)
(* Python values: None, str, int, float (a float is held in thousandths)   *)
(***************************************************************************)
None     == [k |-> "none",  s |-> <<>>, n |-> 0]
Str(s)   == [k |-> "str",   s |-> s,    n |-> 0]
IntV(n)   == [k |-> "int",   s |-> <<>>, n |-> n]
FloatV(n) == [k |-> "float", s |-> <<>>, n |-> n]

\* truth value of a Python value
Truthy(v) ==
    CASE v.k = "none" -> FALSE
      [] v.k = "str"  -> v.s /= <<>>
      [] OTHER        -> v.n /= 0

\* str(v)
PyStr(v) ==
    CASE v.k = "none"  -> <<"N", "o", "n", "e">>
      [] v.k = "str"   -> v.s
      [] v.k = "int"   -> IntToChars(v.n)
      [] OTHER         -> FloatToChars(v.n)

\* int(v) of a number: truncation toward zero
PyInt(v) ==
    IF v.k = "int" THEN v.n
    ELSE IF v.n >= 0 THEN v.n \div 1000 ELSE -((-v.n) \div 1000)

NA == Str(<<"N", "/", "A">>)
(***************************************************************************)
(* Consistency validator: validate_metadata_consistency                    *)
(***************************************************************************)
\* end of the run of digits that starts at position i (i - 1 if none)
RECURSIVE DigitRunEnd(_, _)
DigitRunEnd(s, i) ==
    IF i <= Len(s) /\ IsDigit(s[i]) THEN DigitRunEnd(s, i + 1) ELSE i - 1

\* float(text) of a match of \d+\.?\d* : thousandths, decimals beyond the
\* third dropped
MatchToFloat(ip, fp) ==
    LET f3 == SubSeq(fp \o <<"0", "0", "0">>, 1, 3)
    IN  CharsToNat(ip) * 1000 + CharsToNat(f3)

\* normalize_thickness: None, or the first numeric token as a float
normalize_thickness(thickness_value) ==
    IF ~Truthy(thickness_value) \/ thickness_value = NA THEN None
    ELSE
      LET str   == Lower(PyStr(thickness_value))
          first == {i \in DOMAIN str : IsDigit(str[i])}
      IN  IF first = {} THEN None
          ELSE
            LET p  == SetMin(first)
                e1 == DigitRunEnd(str, p)
                e2 == IF e1 + 1 <= Len(str) /\ str[e1 + 1] = "."
                      THEN DigitRunEnd(str, e1 + 2) ELSE e1
            IN  FloatV(MatchToFloat(SubSeq(str, p, e1), SubSeq(str, e1 + 2, e2)))

\* dict.get(key) of a metadata record: None when the key is missing
NoRecord == [material |-> None, thickness |-> None, part_id |-> None]

\* the `sources` dict built from part_data (keys in insertion order
\* "PDF/CSV", "QIF", "STEP"); STEP never provides a material
BuildSources(pd) ==
    [name \in (IF pd.has_pdf THEN {"PDF/CSV"} ELSE {})
          \cup (IF pd.has_qif THEN {"QIF"} ELSE {})
          \cup (IF pd.has_step THEN {"STEP"} ELSE {})
      |-> CASE name = "PDF/CSV" -> [content |-> pd.pdf_data]
            [] name = "QIF"     -> [material  |-> pd.qif_data.material,
                                    thickness |-> pd.qif_data.thickness,
                                    part_id   |-> pd.qif_data.part_id]
            [] OTHER            -> [material  |-> None,
                                    thickness |-> pd.step_data.thickness,
                                    part_id   |-> pd.step_data.part_id]]

MetaSources(sources) == DOMAIN sources \ {"PDF/CSV"}

Usable(v) == Truthy(v) /\ v /= NA

materials(sources) ==
    {sources[n].material : n \in {m \in MetaSources(sources) : Usable(sources[m].material)}}

\* thicknesses on the values as the sources give them
thicknesses_Raw(sources) ==
    {sources[n].thickness :
        n \in {m \in MetaSources(sources) :
                  /\ Usable(sources[m].thickness)
                  /\ normalize_thickness(sources[m].thickness) /= None}}

thicknesses(sources) ==
    {normalize_thickness(sources[n].thickness) :
        n \in {m \in MetaSources(sources) :
                  /\ Usable(sources[m].thickness)
                  /\ normalize_thickness(sources[m].thickness) /= None}}

part_ids(sources) ==
    {Str(PyStr(sources[n].part_id)) :
        n \in {m \in MetaSources(sources) : Usable(sources[m].part_id)}}

Mismatch(field, values) ==
    IF Cardinality(values) > 1 THEN <<[field |-> field, values |-> values]>> ELSE <<>>

\* ValidationErrors without the part-id check
ValidationErrors_NoPartId(sources) ==
    Mismatch("Material mismatch", materials(sources))
    \o Mismatch("Thickness mismatch", thicknesses(sources))

\* errors, in the order the three checks append them
ValidationErrors(sources) ==
    Mismatch("Material mismatch", materials(sources))
    \o Mismatch("Thickness mismatch", thicknesses(sources))
    \o Mismatch("Part ID mismatch", part_ids(sources))

UnifiedMaterial(sources) ==
    IF "QIF" \in DOMAIN sources /\ Usable(sources["QIF"].material)
    THEN sources["QIF"].material ELSE NA

\* UnifiedThickness with QIF tried before STEP
UnifiedThickness_QifFirst(sources) ==
    IF "QIF" \in DOMAIN sources /\ Usable(sources["QIF"].thickness)
      THEN sources["QIF"].thickness
    ELSE IF "STEP" \in DOMAIN sources /\ Usable(sources["STEP"].thickness)
      THEN sources["STEP"].thickness
    ELSE NA

UnifiedThickness(sources) ==
    IF "STEP" \in DOMAIN sources /\ Usable(sources["STEP"].thickness)
      THEN sources["STEP"].thickness
    ELSE IF "QIF" \in DOMAIN sources /\ Usable(sources["QIF"].thickness)
      THEN sources["QIF"].thickness
    ELSE NA

UnifiedPartId(sources, part_name) ==
    IF "QIF" \in DOMAIN sources /\ Usable(sources["QIF"].part_id)
      THEN sources["QIF"].part_id
    ELSE IF "STEP" \in DOMAIN sources /\ Usable(sources["STEP"].part_id)
      THEN sources["STEP"].part_id
    ELSE Str(part_name)

\* the empty dict returned when no source is present
EmptyUnified == [empty |-> TRUE]

NoMetadataMessage == <<[field |-> "No metadata found in any source", values |-> {}]>>

\* (is_consistent, unified_metadata, error_message); the message is kept as
\* the sequence of the errors that "; ".join concatenates
validate_metadata_consistency(part_name, pd) ==
    LET sources == BuildSources(pd)
        errors  == ValidationErrors(sources)
    IN  IF DOMAIN sources = {}
        THEN [is_consistent |-> FALSE, unified_metadata |-> EmptyUnified,
              error_message |-> NoMetadataMessage]
        ELSE [is_consistent |-> Len(errors) = 0,
              unified_metadata |->
                  [empty |-> FALSE,
                   material  |-> UnifiedMaterial(sources),
                   thickness |-> UnifiedThickness(sources),
                   part_id   |-> UnifiedPartId(sources, part_name),
                   sources   |-> sources,
                   validation_errors |-> errors],
              error_message |-> errors]

\* unified_metadata.get("validation_errors", [])
GetValidationErrors(unified) ==
    IF unified.empty THEN <<>> ELSE unified.validation_errors
(***************************************************************************)
(* Patch engine: apply_patch and its helpers.  List indices are Python's   *)
(* (from 0); -1 stands for "not found" as in the code.                     *)
(***************************************************************************)
At(l, i) == l[i + 1]

\* l[a:b] for 0 <= a
Slice(l, a, b) == SubSeq(l, a + 1, IF b > Len(l) THEN Len(l) ELSE b)

\* list.insert(i, x): i beyond the end appends, a negative i counts from the end
InsertAt(l, i, x) ==
    LET p == IF i < 0 THEN (IF Len(l) + i < 0 THEN 0 ELSE Len(l) + i)
             ELSE IF i > Len(l) THEN Len(l) ELSE i
    IN  SubSeq(l, 1, p) \o <<x>> \o SubSeq(l, p + 1, Len(l))

\* l[i] = x for 0 <= i < len(l)
SetAt(l, i, x) == [l EXCEPT ![i + 1] = x]

T_0       == <<"0">>
T_2       == <<"2">>
T_9       == <<"9">>
T_999     == <<"9", "9", "9">>
T_SECTION == <<"S", "E", "C", "T", "I", "O", "N">>
T_ENDSEC  == <<"E", "N", "D", "S", "E", "C">>
T_EOF     == <<"E", "O", "F">>
T_LAYER   == <<"L", "A", "Y", "E", "R">>
T_HEADER  == <<"H", "E", "A", "D", "E", "R">>
T_TABLES  == <<"T", "A", "B", "L", "E", "S">>
T_ENTITIES == <<"E", "N", "T", "I", "T", "I", "E", "S">>
T_USERI   == <<"$", "U", "S", "E", "R", "I">>
T_USERR   == <<"$", "U", "S", "E", "R", "R">>

\* a "0" group-code line followed by the given marker word
IsMarker(ls, i, word) ==
    /\ Strip(At(ls, i)) = T_0
    /\ Upper(Strip(At(ls, i + 1))) = word

\* _section: (start, end) of the named section, -1 for what is not found
Section(ls, name) ==
    LET nm     == Upper(name)
        starts == {i \in 0..(Len(ls) - 4) :
                      /\ IsMarker(ls, i, T_SECTION)
                      /\ Strip(At(ls, i + 2)) = T_2
                      /\ Upper(Strip(At(ls, i + 3))) = nm}
    IN  IF starts = {} THEN <<-1, -1>>
        ELSE
          LET start == SetMin(starts) + 4
              ends  == {j \in start..(Len(ls) - 2) : IsMarker(ls, j, T_ENDSEC)}
          IN  IF ends = {} THEN <<start, -1>> ELSE <<start, SetMin(ends)>>

\* _find_header_var: index of the variable's group-code-9 line, or -1
FindHeaderVar(ls, var_name) ==
    LET found == {i \in 0..(Len(ls) - 4) :
                     /\ Strip(At(ls, i)) = T_9
                     /\ Strip(At(ls, i + 1)) = var_name
                     /\ i + 3 < Len(ls)}
    IN  IF found = {} THEN -1 ELSE SetMin(found)

LayerLookahead == 20

\* _find_layer_by_index: (start_index, name_index) or (-1, -1)
FindLayerByIndex(ls, index) ==
    LET marks == {i \in 0..(Len(ls) - 2) :
                     At(ls, i) = T_0 /\ Upper(At(ls, i + 1)) = T_LAYER}
        nth   == {i \in marks : Cardinality({m \in marks : m < i}) = index}
    IN  IF nth = {} THEN <<-1, -1>>
        ELSE
          LET i    == SetMin(nth)
              stop == IF i + LayerLookahead < Len(ls) - 1
                      THEN i + LayerLookahead ELSE Len(ls) - 1
              twos == {j \in i..(stop - 1) : At(ls, j) = T_2}
          IN  IF twos = {} THEN <<-1, -1>> ELSE <<i, SetMin(twos)>>

\* dict.get(key, default) of a patch entry
HasKey(d, key) == key \in DOMAIN d

GetPlacement(entry, default) ==
    IF HasKey(entry, "placement") THEN entry.placement ELSE default

IntFieldWidth   == 6
GcodeFieldWidth == 3

\* the check that admits a header variable name
ValidUserVar(var_name) ==
    StartsWith(var_name, T_USERI) \/ StartsWith(var_name, T_USERR)

ValidGcode(gcode) == gcode \in {40, 70}

\* the four lines of a new declaration, in document order
DeclarationBlock(var_name, gcode, value) ==
    << <<" ", " ", "9">>,
       var_name,
       <<" ">> \o PadLeft(IntToChars(gcode), GcodeFieldWidth),
       PyStr(value) >>

RECURSIVE InsertBlock(_, _, _)
InsertBlock(l, i, block) ==
    IF block = <<>> THEN l
    ELSE InsertBlock(InsertAt(l, i, block[Len(block)]), i, SubSeq(block, 1, Len(block) - 1))

\* index at which before_endsec inserts: the ENDSEC line of the first
\* 0/ENDSEC pair that starts in header_start..header_end, or -1
EndsecIdx(doc, header_start, header_end) ==
    LET hits == {i \in header_start..header_end : IsMarker(doc, i, T_ENDSEC)}
    IN  IF hits = {} THEN -1 ELSE SetMin(hits) + 1

\* FormatValue without the fixed-width field
FormatValue_Unpadded(gcode, value) ==
    IF gcode = 70 THEN IntToChars(PyInt(value)) ELSE PyStr(value)

\* the text update_existing writes on the value line
FormatValue(gcode, value) ==
    IF gcode = 70 THEN PadLeft(IntToChars(PyInt(value)), IntFieldWidth)
    ELSE PyStr(value)

\* one iteration of the header_updates loop
HeaderUpdate(doc, header_start, header_end, update) ==
    LET var_name  == update.var
        gcode     == update.gcode
        value     == update.value
        placement == GetPlacement(update, "before_endsec")
    IN  IF ~ValidUserVar(var_name) THEN doc
        ELSE IF ~ValidGcode(gcode) THEN doc
        ELSE
          LET var_idx == FindHeaderVar(Slice(doc, header_start, header_end), var_name)
          IN  IF placement = "before_endsec" THEN
                LET endsec_idx == EndsecIdx(doc, header_start, header_end)
                IN  IF endsec_idx >= 0
                    THEN InsertBlock(doc, endsec_idx,
                                     DeclarationBlock(var_name, gcode, value))
                    ELSE doc
              ELSE IF placement = "update_existing" THEN
                IF var_idx >= 0
                THEN SetAt(doc, var_idx + header_start + 3, FormatValue(gcode, value))
                ELSE doc
              ELSE doc

MaxNameLen == 255
Forbidden  == {"<", ">", "/", "\\", "\"", ":", ";", "?", "*", "|", "="}

\* Sanitize without the cut at 255 characters
Sanitize_NoTruncate(new_name) ==
    [i \in DOMAIN new_name |-> IF new_name[i] \in Forbidden THEN "_" ELSE new_name[i]]

\* new_name[:255] with every forbidden character replaced by "_"
Sanitize(new_name) ==
    LET cut == SubSeq(new_name, 1, IF Len(new_name) > MaxNameLen THEN MaxNameLen
                                   ELSE Len(new_name))
    IN  [i \in DOMAIN cut |-> IF cut[i] \in Forbidden THEN "_" ELSE cut[i]]

\* LayerRename writing on the group-code-2 line instead of the line after it
LayerRename_AtGroupCode(doc, tables_start, tables_end, rename) ==
    LET new_name  == Sanitize(rename.new)
        placement == GetPlacement(rename, "update_specific_layer")
        index     == IF placement = "update_layer_0" THEN 0 ELSE rename.index
        found     == FindLayerByIndex(Slice(doc, tables_start, tables_end), index)
    IN  IF found[1] >= 0 /\ found[2] >= 0
        THEN SetAt(doc, tables_start + found[2], new_name)
        ELSE doc

\* one iteration of the layer_renames loop
LayerRename(doc, tables_start, tables_end, rename) ==
    LET new_name  == Sanitize(rename.new)
        placement == GetPlacement(rename, "update_specific_layer")
        index     == IF placement = "update_layer_0" THEN 0 ELSE rename.index
        found     == FindLayerByIndex(Slice(doc, tables_start, tables_end), index)
    IN  IF found[1] >= 0 /\ found[2] >= 0
        THEN SetAt(doc, tables_start + found[2] + 1, new_name)
        ELSE doc

ChunkLen == 256

\* [comment[i:i+256] for i in range(0, len(comment), 256)]
RECURSIVE Chunks(_)
Chunks(comment) ==
    IF comment = <<>> THEN <<>>
    ELSE <<SubSeq(comment, 1, IF Len(comment) > ChunkLen THEN ChunkLen ELSE Len(comment))>>
         \o Chunks(SubSeq(comment, ChunkLen + 1, Len(comment)))

\* InsertChunks without `insert_pos += 2`
RECURSIVE InsertChunks_NoAdvance(_, _, _)
InsertChunks_NoAdvance(doc, insert_pos, chunks) ==
    IF chunks = <<>> THEN doc
    ELSE InsertChunks_NoAdvance(
            InsertAt(InsertAt(doc, insert_pos, T_999), insert_pos + 1,
                     Strip(Head(chunks))),
            insert_pos, Tail(chunks))

\* the insertion loop: "999" at insert_pos, the stripped chunk after it
RECURSIVE InsertChunks(_, _, _)
InsertChunks(doc, insert_pos, chunks) ==
    IF chunks = <<>> THEN doc
    ELSE InsertChunks(
            InsertAt(InsertAt(doc, insert_pos, T_999), insert_pos + 1,
                     Strip(Head(chunks))),
            insert_pos + 2, Tail(chunks))

\* AddComment that skips a placement it does not know
AddComment_UnknownSkipped(doc, comment_data) ==
    LET placement == GetPlacement(comment_data, "entities_end")
        chunks    == Chunks(comment_data.comment)
    IN  IF placement = "file_start" THEN InsertChunks(doc, 0, chunks)
        ELSE IF placement = "file_end"
          THEN InsertChunks(doc, Len(doc) - 2, chunks)
        ELSE IF placement = "entities_end" THEN
          LET entities_end == Section(doc, T_ENTITIES)[2]
          IN  InsertChunks(doc,
                           IF entities_end >= 0 THEN entities_end ELSE Len(doc),
                           chunks)
        ELSE doc

\* one iteration of the add_comments loop
AddComment(doc, comment_data) ==
    LET placement == GetPlacement(comment_data, "entities_end")
        chunks    == Chunks(comment_data.comment)
    IN  IF placement = "file_start" THEN InsertChunks(doc, 0, chunks)
        ELSE IF placement = "file_end"
          THEN InsertChunks(doc, Len(doc) - 2, chunks)
        ELSE
          LET entities_end == Section(doc, T_ENTITIES)[2]
          IN  InsertChunks(doc,
                           IF entities_end >= 0 THEN entities_end ELSE Len(doc),
                           chunks)

\* patch[key] for the three categories; no entries when the key is missing
Entries(pt, key) == IF HasKey(pt, key) THEN pt[key] ELSE <<>>

RECURSIVE HeaderLoop(_, _, _, _)
HeaderLoop(doc, hs, he, updates) ==
    IF updates = <<>> THEN doc
    ELSE HeaderLoop(HeaderUpdate(doc, hs, he, Head(updates)), hs, he, Tail(updates))

RECURSIVE RenameLoop(_, _, _, _)
RenameLoop(doc, ts, te, renames) ==
    IF renames = <<>> THEN doc
    ELSE RenameLoop(LayerRename(doc, ts, te, Head(renames)), ts, te, Tail(renames))

RECURSIVE CommentLoop(_, _)
CommentLoop(doc, comments) ==
    IF comments = <<>> THEN doc
    ELSE CommentLoop(AddComment(doc, Head(comments)), Tail(comments))

SectionFound(se) == se[1] >= 0 /\ se[2] >= 0

\* apply_patch on the loaded lines
apply_patch(ls, pt) ==
    LET h  == Section(ls, T_HEADER)
        m1 == IF SectionFound(h)
              THEN HeaderLoop(ls, h[1], h[2], Entries(pt, "header_updates"))
              ELSE ls
        t  == Section(m1, T_TABLES)
        m2 == IF SectionFound(t)
              THEN RenameLoop(m1, t[1], t[2], Entries(pt, "layer_renames"))
              ELSE m1
    IN  CommentLoop(m2, Entries(pt, "add_comments"))
(***************************************************************************)
(* Inputs of the patch engine: documents and patches                       *)
(***************************************************************************)
SeqsUpTo(S, n) == UNION {[1..k -> S] : k \in 0..n}

T_1       == <<"1">>
T_8       == <<"8">>
T_10      == <<"1", "0">>
T_20      == <<"2", "0">>
T_40      == <<"4", "0">>
T_70      == <<"7", "0">>
T_LINE    == <<"L", "I", "N", "E">>
T_TABLE   == <<"T", "A", "B", "L", "E">>
T_ENDTAB  == <<"E", "N", "D", "T", "A", "B">>
T_ACADVER == <<"$", "A", "C", "A", "D", "V", "E", "R">>
T_AC1015  == <<"A", "C", "1", "0", "1", "5">>
T_USERI1  == <<"$", "U", "S", "E", "R", "I", "1">>
T_USERR1  == <<"$", "U", "S", "E", "R", "R", "1">>
T_USERI9  == <<"$", "U", "S", "E", "R", "I", "9">>
T_Note    == <<"m", "a", "d", "e", " ", "b", "y", " ", "c", "a", "d">>
T_LayerA  == <<"C", "U", "T">>
T_LayerB  == <<"M", "A", "R", "K">>
T_0_0     == <<"0", ".", "0">>
T_1_0     == <<"1", ".", "0">>

\* a group-code line: right-aligned in 3 characters, or bare
G(code, style) == IF style = "padded" THEN PadLeft(code, 3) ELSE code

HeaderSection(style, userVars) ==
    << G(T_0, style), T_SECTION, G(T_2, style), T_HEADER,
       G(T_9, style), T_ACADVER, G(T_1, style), T_AC1015 >>
    \o (IF userVars
        THEN << G(T_9, style), T_USERI1, G(T_70, style), PadLeft(T_0, 6),
                G(T_9, style), T_USERR1, G(T_40, style), T_0_0 >>
        ELSE <<>>)
    \o << G(T_0, style), T_ENDSEC >>

LayerRecord(style, name) ==
    << G(T_0, style), T_LAYER, G(T_2, style), name, G(T_70, style), PadLeft(T_0, 6) >>

TablesSection(style) ==
    << G(T_0, style), T_SECTION, G(T_2, style), T_TABLES,
       G(T_0, style), T_TABLE, G(T_2, style), T_LAYER, G(T_70, style), PadLeft(T_2, 6) >>
    \o LayerRecord(style, T_0) \o LayerRecord(style, T_LayerA)
    \o << G(T_0, style), T_ENDTAB, G(T_0, style), T_ENDSEC >>

EntitiesSection(style) ==
    << G(T_0, style), T_SECTION, G(T_2, style), T_ENTITIES,
       G(T_0, style), T_LINE, G(T_8, style), T_0,
       G(T_10, style), T_0_0, G(T_20, style), T_1_0,
       G(T_0, style), T_ENDSEC >>

Document(style, preamble, header, tables, entities) ==
    (IF preamble THEN << G(T_999, style), T_Note >> ELSE <<>>)
    \o (IF header = "none" THEN <<>> ELSE HeaderSection(style, header = "user"))
    \o (IF tables THEN TablesSection(style) ELSE <<>>)
    \o (IF entities THEN EntitiesSection(style) ELSE <<>>)
    \o << G(T_0, style), T_EOF >>

Documents ==
    { Document(style, preamble, header, tables, entities) :
        style \in {"bare", "padded"}, preamble \in BOOLEAN,
        header \in {"none", "plain", "user"}, tables \in BOOLEAN,
        entities \in BOOLEAN }

\* the DXF files of the parts the pipeline runs on
PipelineDocuments == { Document("bare", FALSE, "user", TRUE, TRUE) }

HeaderEntries ==
    { [var |-> T_USERR1, gcode |-> 40, value |-> FloatV(3000), placement |-> "before_endsec"],
      [var |-> T_USERI1, gcode |-> 70, value |-> IntV(7)],
      [var |-> T_USERI1, gcode |-> 70, value |-> FloatV(12700), placement |-> "update_existing"],
      [var |-> T_USERR1, gcode |-> 40, value |-> FloatV(2500), placement |-> "update_existing"],
      [var |-> T_USERI9, gcode |-> 70, value |-> IntV(1), placement |-> "before_endsec"],
      [var |-> T_ACADVER, gcode |-> 70, value |-> IntV(5), placement |-> "update_existing"],
      [var |-> T_USERI1, gcode |-> 62, value |-> IntV(3), placement |-> "update_existing"],
      [var |-> T_USERR1, gcode |-> 40, value |-> FloatV(1500), placement |-> "at_top"] }

\* a requested layer name longer than the limit, with forbidden characters
\* on both sides of it
LongName ==
    [i \in 1..(MaxNameLen + 3) |->
        IF i \in {2, MaxNameLen + 2} THEN ":" ELSE IF i = 5 THEN "*" ELSE "N"]

\* a comment of three chunks, with blanks on both sides of the first cut
LongComment ==
    [i \in 1..(2 * ChunkLen + 3) |->
        IF i \in {ChunkLen, ChunkLen + 1} THEN " "
        ELSE IF i % 2 = 0 THEN "a" ELSE "b"]

RenameEntries ==
    { [index |-> 0, new |-> <<"M", "A", "T", "_", "A", ":", "1", "*">>],
      [index |-> 1, new |-> T_LayerB, placement |-> "update_specific_layer"],
      [index |-> 2, new |-> T_LayerB, placement |-> "update_specific_layer"],
      [index |-> 0, new |-> LongName, placement |-> "update_layer_0"] }

CommentEntries ==
    { [comment |-> <<"P", "A", "R", "T", " ", "7">>, placement |-> "file_start"],
      [comment |-> <<"P", "A", "R", "T", " ", "7">>, placement |-> "file_end"],
      [comment |-> <<"T", "H", "K", " ", "3">>, placement |-> "entities_end"],
      [comment |-> <<"T", "H", "K", " ", "3">>, placement |-> "layer_end"],
      [comment |-> LongComment, placement |-> "file_start"],
      [comment |-> LongComment, placement |-> "file_end"],
      [comment |-> LongComment, placement |-> "entities_end"] }

\* a patch holds at most MaxEntries entries over its three categories; a
\* category without entries is a missing key
MaxEntries == 2

MakePatch(hu, lr, ac) ==
    [key \in (IF hu = <<>> THEN {} ELSE {"header_updates"})
          \cup (IF lr = <<>> THEN {} ELSE {"layer_renames"})
          \cup (IF ac = <<>> THEN {} ELSE {"add_comments"})
      |-> CASE key = "header_updates" -> hu
            [] key = "layer_renames"  -> lr
            [] OTHER                  -> ac]

Patches ==
    UNION { UNION { { MakePatch(hu, lr, ac) :
                        ac \in SeqsUpTo(CommentEntries, MaxEntries - Len(hu) - Len(lr)) } :
                    lr \in SeqsUpTo(RenameEntries, MaxEntries - Len(hu)) } :
            hu \in SeqsUpTo(HeaderEntries, MaxEntries) }
(***************************************************************************)
(* Inputs of the thickness inference                                       *)
(***************************************************************************)
MaxSamples == 3

SampleSet ==
    { [d |-> 500,   a |-> 100],
      [d |-> 1000,  a |-> 100],
      [d |-> 1980,  a |-> 100],
      [d |-> 1996,  a |-> 100],
      [d |-> 2000,  a |-> 100],
      [d |-> 2000,  a |-> 400],
      [d |-> 2010,  a |-> 100],
      [d |-> 3000,  a |-> 100],
      [d |-> 3000,  a |-> 400],
      [d |-> 26000, a |-> 400] }

(***************************************************************************)
(* Inputs of the validator: the per-part record the combined parser writes *)
(***************************************************************************)
T_AISI304   == <<"A", "I", "S", "I", " ", "3", "0", "4">>
T_Al6061    == <<"A", "l", " ", "6", "0", "6", "1">>
T_3_0mm     == <<"3", ".", "0", " ", "m", "m">>
T_2mm       == <<"2", "m", "m">>
T_ReadError == <<"R", "e", "a", "d", " ", "E", "r", "r", "o", "r">>
T_P1        == <<"P", "1">>
T_P2        == <<"P", "2">>
T_PartName  == <<"p", "a", "r", "t", "7">>

QifRecords ==
    [material  : {None, NA, Str(T_AISI304), Str(T_Al6061)},
     thickness : {None, NA, Str(T_3_0mm), Str(T_2mm)},
     part_id   : {None, NA, Str(T_P1)}]

StepRecords ==
    [material  : {None, Str(T_Al6061)},
     thickness : {None, FloatV(3000), FloatV(2000), Str(T_ReadError)},
     part_id   : {None, Str(T_P1), Str(T_P2)}]

\* a key that is missing from part_data has has_... = FALSE
PartData ==
    { [has_pdf |-> hp, pdf_data |-> "text", has_qif |-> TRUE, qif_data |-> q,
       has_step |-> TRUE, step_data |-> s] :
          hp \in BOOLEAN, q \in QifRecords, s \in StepRecords }
    \cup
    { [has_pdf |-> hp, pdf_data |-> pdf, has_qif |-> hq, qif_data |-> NoRecord,
       has_step |-> hs, step_data |-> NoRecord] :
          hp \in BOOLEAN, pdf \in {"text", "empty"}, hq \in BOOLEAN, hs \in BOOLEAN }
(***************************************************************************)
(* State machines                                                          *)
(***************************************************************************)
ThkIdle ==
    /\ samples = <<>>
    /\ setOrder = "asc"
    /\ thkPc = "idle"
    /\ thkResult = NoResult

ValIdle ==
    /\ part_data = [has_pdf |-> FALSE, pdf_data |-> "text", has_qif |-> FALSE,
                    qif_data |-> NoRecord, has_step |-> FALSE,
                    step_data |-> NoRecord]
    /\ ppPc = "idle"
    /\ validation = [is_consistent |-> FALSE, unified_metadata |-> EmptyUnified,
                     error_message |-> <<>>]
    /\ llmCalls = 0
    /\ ppResult = [part_name |-> T_PartName]

PatchIdle ==
    /\ lines = <<>>
    /\ patch = MakePatch(<<>>, <<>>, <<>>)
    /\ modified = <<>>
    /\ apPc = "idle"
    /\ apIdx = 0
    /\ section = <<-1, -1>>

(* ---- thickness inference ---- *)
ThkInit ==
    /\ samples \in SeqsUpTo(SampleSet, MaxSamples)
    /\ setOrder \in {"asc", "desc"}
    /\ thkPc = "call"
    /\ thkResult = NoResult
    /\ ValIdle /\ PatchIdle

AnalyzeDistances ==
    /\ thkPc = "call"
    /\ thkResult' = analyze_distances(samples, setOrder)
    /\ thkPc' = "done"
    /\ UNCHANGED <<samples, setOrder, valVars, patchVars>>

\* the same face pairs given to StepParser._calculate_thickness
CalculateThickness ==
    /\ thkPc = "call"
    /\ thkResult' = calculate_thickness(samples)
    /\ thkPc' = "done_simple"
    /\ UNCHANGED <<samples, setOrder, valVars, patchVars>>

ThkNext == AnalyzeDistances \/ CalculateThickness

SpecThk == ThkInit /\ [][ThkNext]_vars

(* ---- process_part ---- *)
LLMResponses == { MakePatch(<<h>>, <<>>, <<c>>) : h \in HeaderEntries, c \in CommentEntries }

ValInit ==
    /\ part_data \in PartData
    /\ ppPc = "start"
    /\ validation = [is_consistent |-> FALSE, unified_metadata |-> EmptyUnified,
                     error_message |-> <<>>]
    /\ llmCalls = 0
    /\ ppResult = [part_name |-> T_PartName]
    /\ ThkIdle /\ PatchIdle

\* process_part up to the early return on an inconsistency
ProcessPartInconsistent ==
    LET v == validate_metadata_consistency(T_PartName, part_data)
    IN  /\ ppPc = "start"
        /\ ~v.is_consistent
        /\ validation' = v
        /\ ppResult' = [error |-> v.error_message,
                        part_name |-> T_PartName,
                        unified_metadata |-> v.unified_metadata,
                        validation_errors |-> GetValidationErrors(v.unified_metadata)]
        /\ ppPc' = "returned"
        /\ UNCHANGED <<part_data, llmCalls, thkVars, patchVars>>

\* ProcessPartAskLLM without the early return on an inconsistency
ProcessPartAskLLM_NoCheck ==
    LET v == validate_metadata_consistency(T_PartName, part_data)
    IN  /\ ppPc = "start"
        /\ validation' = v
        /\ llmCalls' = llmCalls + 1
        /\ ppPc' = "ask_llm"
        /\ UNCHANGED <<part_data, ppResult, thkVars, patchVars>>

\* process_part up to the call of ask_llm
ProcessPartAskLLM ==
    LET v == validate_metadata_consistency(T_PartName, part_data)
    IN  /\ ppPc = "start"
        /\ v.is_consistent
        /\ validation' = v
        /\ llmCalls' = llmCalls + 1
        /\ ppPc' = "ask_llm"
        /\ UNCHANGED <<part_data, ppResult, thkVars, patchVars>>

\* ask_llm returns the annotation instructions
LLMReturns ==
    /\ ppPc = "ask_llm"
    /\ \E instructions \in LLMResponses :
          ppResult' = [part_name |-> T_PartName,
                       unified_metadata |-> validation.unified_metadata,
                       validation_status |-> "consistent",
                       annotation_instructions |-> instructions]
    /\ ppPc' = "returned"
    /\ UNCHANGED <<part_data, validation, llmCalls, thkVars, patchVars>>

\* ask_llm raises (API error, undecodable JSON)
LLMRaises ==
    /\ ppPc = "ask_llm"
    /\ ppResult' = [error |-> <<[field |-> "exception", values |-> {}]>>,
                    part_name |-> T_PartName,
                    unified_metadata |-> validation.unified_metadata,
                    validation_status |-> IF validation.is_consistent
                                          THEN "consistent" ELSE "inconsistent"]
    /\ ppPc' = "returned"
    /\ UNCHANGED <<part_data, validation, llmCalls, thkVars, patchVars>>

\* main of the patch stage for the part: the response file written for the
\* part is loaded as the patch and applied to the part's DXF file
PatchStageMain ==
    /\ ppPc = "returned"
    /\ \E doc \in PipelineDocuments :
          /\ lines' = doc
          /\ modified' = apply_patch(doc, ppResult)
    /\ patch' = ppResult
    /\ apPc' = "written"
    /\ ppPc' = "patched"
    /\ UNCHANGED <<part_data, validation, llmCalls, ppResult, apIdx, section, thkVars>>

ValNext ==
    \/ ProcessPartInconsistent \/ ProcessPartAskLLM \/ LLMReturns \/ LLMRaises
    \/ PatchStageMain

SpecVal == ValInit /\ [][ValNext]_vars

(* ---- apply_patch ---- *)
PatchInit ==
    /\ lines \in Documents
    /\ patch \in Patches
    /\ modified = lines
    /\ apPc = "header_updates"
    /\ apIdx = 0
    /\ section = <<-1, -1>>
    /\ ThkIdle /\ ValIdle

AfterHeader == "layer_renames"
AfterRenames == "add_comments"

\* BeginHeaderUpdates that ends the call when the HEADER section is missing
BeginHeaderUpdates_Abort ==
    /\ apPc = "header_updates"
    /\ LET h == IF HasKey(patch, "header_updates")
                THEN Section(modified, T_HEADER) ELSE <<-1, -1>>
       IN  /\ section' = h
           /\ IF HasKey(patch, "header_updates") /\ SectionFound(h)
              THEN apPc' = "header_loop" /\ apIdx' = 1
              ELSE IF HasKey(patch, "header_updates")
              THEN apPc' = "done" /\ apIdx' = 0
              ELSE apPc' = AfterHeader /\ apIdx' = 0
    /\ UNCHANGED <<lines, patch, modified, thkVars, valVars>>

\* "header_updates" in patch, and the HEADER section located once
BeginHeaderUpdates ==
    /\ apPc = "header_updates"
    /\ LET h == IF HasKey(patch, "header_updates")
                THEN Section(modified, T_HEADER) ELSE <<-1, -1>>
       IN  /\ section' = h
           /\ IF HasKey(patch, "header_updates") /\ SectionFound(h)
              THEN apPc' = "header_loop" /\ apIdx' = 1
              ELSE apPc' = AfterHeader /\ apIdx' = 0
    /\ UNCHANGED <<lines, patch, modified, thkVars, valVars>>

\* one iteration of `for update in patch["header_updates"]`
HeaderUpdateStep ==
    /\ apPc = "header_loop"
    /\ modified' = HeaderUpdate(modified, section[1], section[2],
                                patch["header_updates"][apIdx])
    /\ IF apIdx < Len(patch["header_updates"])
       THEN apIdx' = apIdx + 1 /\ apPc' = apPc
       ELSE apIdx' = 0 /\ apPc' = AfterHeader
    /\ UNCHANGED <<lines, patch, section, thkVars, valVars>>

\* "layer_renames" in patch, and the TABLES section located once
BeginLayerRenames ==
    /\ apPc = "layer_renames"
    /\ LET t == IF HasKey(patch, "layer_renames")
                THEN Section(modified, T_TABLES) ELSE <<-1, -1>>
       IN  /\ section' = t
           /\ IF HasKey(patch, "layer_renames") /\ SectionFound(t)
              THEN apPc' = "rename_loop" /\ apIdx' = 1
              ELSE apPc' = AfterRenames /\ apIdx' = 0
    /\ UNCHANGED <<lines, patch, modified, thkVars, valVars>>

\* one iteration of `for rename in patch["layer_renames"]`
LayerRenameStep ==
    /\ apPc = "rename_loop"
    /\ modified' = LayerRename(modified, section[1], section[2],
                               patch["layer_renames"][apIdx])
    /\ IF apIdx < Len(patch["layer_renames"])
       THEN apIdx' = apIdx + 1 /\ apPc' = apPc
       ELSE apIdx' = 0 /\ apPc' = AfterRenames
    /\ UNCHANGED <<lines, patch, section, thkVars, valVars>>

\* "add_comments" in patch
BeginAddComments ==
    /\ apPc = "add_comments"
    /\ IF HasKey(patch, "add_comments")
       THEN apPc' = "comment_loop" /\ apIdx' = 1
       ELSE apPc' = "done" /\ apIdx' = 0
    /\ UNCHANGED <<lines, patch, modified, section, thkVars, valVars>>

\* one iteration of `for comment_data in patch["add_comments"]`
AddCommentStep ==
    /\ apPc = "comment_loop"
    /\ modified' = AddComment(modified, patch["add_comments"][apIdx])
    /\ IF apIdx < Len(patch["add_comments"])
       THEN apIdx' = apIdx + 1 /\ apPc' = apPc
       ELSE apIdx' = 0 /\ apPc' = "done"
    /\ UNCHANGED <<lines, patch, section, thkVars, valVars>>

PatchNext ==
    \/ BeginHeaderUpdates \/ HeaderUpdateStep
    \/ BeginLayerRenames \/ LayerRenameStep
    \/ BeginAddComments \/ AddCommentStep

SpecPatch == PatchInit /\ [][PatchNext]_vars

(***************************************************************************)
(* Properties of the thickness inference                                   *)
(***************************************************************************)
Permute(s, p) == [i \in DOMAIN s |-> s[p[i]]]

HasRetained(s) == Retained(s) /= <<>>

ClusterValues(s) == {Round2(Retained(s)[i].d) : i \in DOMAIN Retained(s)}

\* C6: thickness inference is order-independent: with at least one distance
\* in [0.6, 25.0] mm, every permutation of the sample sequence yields the
\* same thickness value, occurrence count and decision rule.
C6_OrderIndependent ==
    (thkPc = "done" /\ HasRetained(samples)) =>
        \A p \in Permutations(DOMAIN samples) :
            analyze_distances(Permute(samples, p), setOrder) = thkResult

\* C7: whenever area_thickness / min_thickness < 1.4 the result is the
\* cluster with the largest summed area, by the area-dominant rule, whatever
\* the mode and the scores are; the samples (1.98,100), (2.01,100),
\* (2.00,400) give 2.00 by the area-dominant rule.
C7_AreaDominant ==
    (thkPc = "done" /\ HasRetained(samples)) =>
        /\ (area_thickness(samples) * 10 < 14 * min_thickness(samples)) =>
              /\ thkResult.method = "area_dominant"
              /\ thkResult.value \in ClusterValues(samples)
              /\ \A u \in ClusterValues(samples) :
                    thickness_clusters(samples, u)
                        <= thickness_clusters(samples, thkResult.value)
              /\ thkResult.value * 10 < 14 * SetMin(ClusterValues(samples))
        /\ (samples = << [d |-> 1980, a |-> 100], [d |-> 2010, a |-> 100],
                         [d |-> 2000, a |-> 400] >>) =>
              thkResult = [value |-> 200, count |-> 1, method |-> "area_dominant"]

\* the area rule decides although the mode (1.98, strong and within 0.1 of
\* the area-dominant cluster) differs from the area-dominant cluster (2.00)
C7_Witness ==
    /\ thkPc = "done"
    /\ samples = << [d |-> 1980, a |-> 100], [d |-> 1980, a |-> 100],
                    [d |-> 2000, a |-> 400] >>
    /\ mode_thickness(samples) = 198
    /\ thkResult = [value |-> 200, count |-> 1, method |-> "area_dominant"]

Rule1(s) == area_thickness(s) * 10 < 14 * min_thickness(s)
Rule2(s) == min_thickness(s) < 150 /\ mode_thickness(s) * 10 > 15 * min_thickness(s)
Rule3(s) == /\ hist(s, mode_thickness(s)) * 10 > 4 * Len(Retained(s))
            /\ Abs(mode_thickness(s) - area_thickness(s)) < 10

\* C8: the decision is first-match in the order of the four rules: without
\* the area rule, a min below 1.5 mm with mode/min > 1.5 gives the min even
\* if the mode-strong condition also holds; without the first two rules a
\* strong mode agreeing with the area cluster gives the mode; only when none
\* of the three applies is a highest-score candidate used.
C8_FirstMatch ==
    (thkPc = "done" /\ HasRetained(samples)) =>
        /\ (~Rule1(samples) /\ Rule2(samples)) =>
              /\ thkResult.value = min_thickness(samples)
              /\ thkResult.method = "min"
        /\ (~Rule1(samples) /\ ~Rule2(samples) /\ Rule3(samples)) =>
              /\ thkResult.value = mode_thickness(samples)
              /\ thkResult.method = "mode"
        /\ (thkResult.method = "highest_confidence") <=>
              (~Rule1(samples) /\ ~Rule2(samples) /\ ~Rule3(samples))
        /\ (thkResult.method = "highest_confidence") =>
              \A u \in ClusterValues(samples) :
                  ScaledScore(samples, u) <= ScaledScore(samples, thkResult.value)

\* the min rule wins although the mode-strong condition holds as well
C8_Witness ==
    /\ thkPc = "done"
    /\ HasRetained(samples)
    /\ ~Rule1(samples) /\ Rule2(samples) /\ Rule3(samples)
    /\ thkResult.method = "min"
    /\ thkResult.value /= mode_thickness(samples)

(***************************************************************************)
(* Properties of the validator and of process_part                         *)
(***************************************************************************)
Validated == ppPc \in {"ask_llm", "returned"}

HasSources == part_data.has_pdf \/ part_data.has_qif \/ part_data.has_step

\* non-null and not "N/A"
Present(v) == v.k /= "none" /\ v /= NA

\* C3: each field is unified independently under a fixed priority: material
\* from QIF, else "N/A"; thickness from STEP, else QIF, else "N/A"; part_id
\* from QIF, else STEP, else the caller's part name; whether or not
\* contradictions were detected.
C3_UnificationPriority ==
    (Validated /\ HasSources) =>
        LET u  == validation.unified_metadata
            hq == part_data.has_qif
            hs == part_data.has_step
            q  == part_data.qif_data
            st == part_data.step_data
        IN  /\ u.material = IF hq /\ Present(q.material) THEN q.material ELSE NA
            /\ u.thickness = IF hs /\ Present(st.thickness) THEN st.thickness
                             ELSE IF hq /\ Present(q.thickness) THEN q.thickness
                             ELSE NA
            /\ u.part_id = IF hq /\ Present(q.part_id) THEN q.part_id
                           ELSE IF hs /\ Present(st.part_id) THEN st.part_id
                           ELSE Str(T_PartName)

\* a contradiction on the thickness was detected and the STEP value is kept
C3_Witness ==
    /\ ppPc = "returned"
    /\ part_data.has_qif /\ part_data.has_step
    /\ part_data.qif_data.thickness = Str(T_2mm)
    /\ part_data.step_data.thickness = FloatV(3000)
    /\ part_data.qif_data.material = Str(T_AISI304)
    /\ validation.unified_metadata.validation_errors /= <<>>
    /\ validation.unified_metadata.thickness = FloatV(3000)
    /\ validation.unified_metadata.material = Str(T_AISI304)

ErrorFields(errors) == [i \in DOMAIN errors |-> errors[i].field]

\* C4: with at least one source, is_consistent holds exactly if
\* validation_errors is empty, which holds exactly if each of the three
\* collected sets has at most one element; each field with more than one
\* value contributes one message, in the order material, thickness, part id.
C4_ConsistentIffNoContradiction ==
    (Validated /\ HasSources) =>
        LET u       == validation.unified_metadata
            sources == u.sources
            M       == materials(sources)
            T       == thicknesses(sources)
            P       == part_ids(sources)
            q       == part_data.qif_data
            st      == part_data.step_data
        IN  /\ validation.is_consistent <=> (u.validation_errors = <<>>)
            /\ (u.validation_errors = <<>>) <=>
                  (Cardinality(M) <= 1 /\ Cardinality(T) <= 1 /\ Cardinality(P) <= 1)
            /\ ErrorFields(u.validation_errors) =
                  (IF Cardinality(M) > 1 THEN <<"Material mismatch">> ELSE <<>>)
                  \o (IF Cardinality(T) > 1 THEN <<"Thickness mismatch">> ELSE <<>>)
                  \o (IF Cardinality(P) > 1 THEN <<"Part ID mismatch">> ELSE <<>>)
            /\ \A i \in DOMAIN u.validation_errors :
                  u.validation_errors[i].values =
                      CASE u.validation_errors[i].field = "Material mismatch"  -> M
                        [] u.validation_errors[i].field = "Thickness mismatch" -> T
                        [] OTHER                                              -> P
            \* the sets, on the records of the two metadata sources
            /\ (part_data.has_qif /\ part_data.has_step) =>
                  /\ (q.thickness = Str(T_3_0mm) /\ st.thickness = FloatV(3000)) =>
                        Cardinality(T) = 1
                  /\ (q.thickness = Str(T_2mm) /\ st.thickness = FloatV(3000)) =>
                        T = {FloatV(2000), FloatV(3000)}
                  /\ (q.part_id = Str(T_P1) /\ st.part_id = Str(T_P2)) =>
                        P = {Str(T_P1), Str(T_P2)}
                  /\ (q.part_id = Str(T_P1) /\ st.part_id = Str(T_P1)) =>
                        P = {Str(T_P1)}

\* thickness and part id both contradict: two messages, in that order
C4_Witness ==
    /\ ppPc = "returned"
    /\ HasSources
    /\ ~validation.is_consistent
    /\ ErrorFields(validation.unified_metadata.validation_errors)
          = <<"Thickness mismatch", "Part ID mismatch">>

\* C5: the renderer is called for a part only after its validation returned
\* is_consistent = true; on a contradiction process_part returns an error
\* result with the unified record and its validation_errors, without a
\* renderer call and without annotation instructions.
C5_RendererOnlyWhenConsistent ==
    LET v == validate_metadata_consistency(T_PartName, part_data)
    IN  /\ llmCalls > 0 => (v.is_consistent /\ validation.is_consistent)
        /\ ppPc = "ask_llm" => llmCalls = 1
        /\ (ppPc = "returned" /\ ~v.is_consistent) =>
              /\ llmCalls = 0
              /\ "error" \in DOMAIN ppResult
              /\ "annotation_instructions" \notin DOMAIN ppResult
              /\ ppResult.unified_metadata = v.unified_metadata
              /\ ppResult.validation_errors = GetValidationErrors(v.unified_metadata)
        /\ (ppPc \in {"start", "ask_llm"}) => "annotation_instructions" \notin DOMAIN ppResult
        /\ "annotation_instructions" \in DOMAIN ppResult => llmCalls = 1

\* a contradiction was found and the error result returned
C5_Witness ==
    /\ ppPc = "returned"
    /\ llmCalls = 0
    /\ "error" \in DOMAIN ppResult
    /\ ppResult.validation_errors /= <<>>
    /\ ppResult.unified_metadata.empty = FALSE

(***************************************************************************)
(* Properties of the patch engine                                          *)
(***************************************************************************)
\* ^\$USER[IR][1-5]$
PatternVar(var_name) ==
    /\ Len(var_name) = 7
    /\ ValidUserVar(var_name)
    /\ var_name[7] \in {"1", "2", "3", "4", "5"}

C1_Entry ==
    [var |-> T_USERR1, gcode |-> 40, value |-> FloatV(3000), placement |-> "before_endsec"]

\* C1: the single header update {$USERR1, 40, 3.0, before_endsec} on a
\* document whose HEADER end marker (the "0" line of 0/ENDSEC) is at line k
\* inserts exactly 4 lines at k..k+3, the intact 0/ENDSEC pair follows
\* them, and every other line is unchanged and in the same order.
C1_BeforeEndsecAtMarker ==
    (/\ apPc = "done"
     /\ patch = MakePatch(<<C1_Entry>>, <<>>, <<>>)
     /\ SectionFound(Section(lines, T_HEADER))) =>
        LET k == Section(lines, T_HEADER)[2]
        IN  /\ Len(modified) = Len(lines) + 4
            /\ Slice(modified, 0, k) = Slice(lines, 0, k)
            /\ Strip(At(modified, k)) = T_9
            /\ At(modified, k + 1) = T_USERR1
            /\ Strip(At(modified, k + 2)) = T_40
            /\ At(modified, k + 3) = <<"3", ".", "0">>
            /\ IsMarker(modified, k + 4, T_ENDSEC)
            /\ Slice(modified, k + 4, Len(modified)) = Slice(lines, k, Len(lines))

\* orig is a subsequence of out, up to the lines of orig whose index (from
\* 0) is in wild, which may be overwritten
RECURSIVE Embeds(_, _, _, _, _)
Embeds(orig, out, wild, i, j) ==
    IF i >= Len(orig) THEN TRUE
    ELSE IF j >= Len(out) THEN FALSE
    ELSE IF At(out, j) = At(orig, i) \/ i \in wild
         THEN Embeds(orig, out, wild, i + 1, j + 1)
         ELSE Embeds(orig, out, wild, i, j + 1)

\* value lines of the declarations, in the HEADER section of ls, of the
\* variables the patch updates in place
HeaderValueLines(ls, pt) ==
    LET h == Section(ls, T_HEADER)
    IN  IF ~SectionFound(h) THEN {}
        ELSE {k \in (h[1] + 3)..(h[2] - 1) :
                 \E e \in {Entries(pt, "header_updates")[n] :
                              n \in DOMAIN Entries(pt, "header_updates")} :
                    /\ GetPlacement(e, "before_endsec") = "update_existing"
                    /\ Strip(At(ls, k - 3)) = T_9
                    /\ Strip(At(ls, k - 2)) = e.var}

\* name lines of the layer records in the TABLES section of ls: the line
\* after the first group-code-2 line of a 0/LAYER record
LayerNameLines(ls, pt) ==
    LET t == Section(ls, T_TABLES)
    IN  IF ~SectionFound(t) \/ ~HasKey(pt, "layer_renames") THEN {}
        ELSE {k \in (t[1] + 3)..(t[2] - 1) :
                 /\ At(ls, k - 1) = T_2
                 /\ \E i \in t[1]..(k - 2) :
                       /\ At(ls, i) = T_0 /\ Upper(At(ls, i + 1)) = T_LAYER
                       /\ \A j \in i..(k - 2) : At(ls, j) /= T_2}

CurrentUpdate == patch["header_updates"][apIdx]

\* declarations of var_name in the HEADER section of the loaded document
Declarations(var_name) ==
    LET h == Section(lines, T_HEADER)
    IN  {i \in h[1]..(h[2] - 2) :
            Strip(At(lines, i)) = T_9 /\ At(lines, i + 1) = var_name}

\* int(value) right-aligned in 6 characters for group code 70, the plain
\* decimal text for group code 40
C9_Text(text, update) ==
    /\ update.gcode = 70 =>
          /\ Len(text) = 6
          /\ text[Len(text)] /= " "
          /\ Strip(text) = IntToChars(PyInt(update.value))
    /\ update.gcode = 40 => text = PyStr(update.value)
    /\ update.value = FloatV(12700) /\ update.gcode = 70 =>
          text = <<" ", " ", " ", " ", "1", "2">>
    /\ update.value = FloatV(2500) /\ update.gcode = 40 =>
          text = <<"2", ".", "5">>

\* C9: an update_existing entry (recognized variable, group code 40 or 70)
\* whose variable is declared in HEADER overwrites only the value line of
\* that declaration, 3 lines after its group-code-9 line, with the
\* formatted value; length and all other lines are unchanged.  Without a
\* declaration the document is unchanged.
C9_UpdateExisting ==
    [][ (/\ apPc = "header_loop"
         /\ GetPlacement(CurrentUpdate, "before_endsec") = "update_existing"
         /\ PatternVar(CurrentUpdate.var)
         /\ CurrentUpdate.gcode \in {40, 70}) =>
            LET decl == Declarations(CurrentUpdate.var)
            IN  IF decl = {} THEN modified' = modified
                ELSE LET v == SetMin(decl) + 3
                     IN  /\ Len(modified') = Len(modified)
                         /\ \A i \in 0..(Len(modified) - 1) :
                               i /= v => At(modified', i) = At(modified, i)
                         /\ C9_Text(At(modified', v), CurrentUpdate)
      ]_vars

\* the value line of $USERI1 now holds int(12.7) in a 6-character field
C9_Witness ==
    /\ apPc = "done"
    /\ patch = MakePatch(<<[var |-> T_USERI1, gcode |-> 70, value |-> FloatV(12700),
                            placement |-> "update_existing"]>>, <<>>, <<>>)
    /\ Declarations(T_USERI1) /= {}
    /\ Len(modified) = Len(lines)
    /\ At(modified, SetMin(Declarations(T_USERI1)) + 3) = <<" ", " ", " ", " ", "1", "2">>
    /\ At(lines, SetMin(Declarations(T_USERI1)) + 3) /= <<" ", " ", " ", " ", "1", "2">>

\* C10: a header_updates entry whose variable is outside $USERI1..5,
\* $USERR1..5 or whose group code is not 40 or 70 has no effect on the
\* document under either placement.
C10_InvalidEntrySkipped ==
    [][ (/\ apPc = "header_loop"
         /\ ~(PatternVar(CurrentUpdate.var) /\ CurrentUpdate.gcode \in {40, 70})) =>
            modified' = modified
      ]_vars

(***************************************************************************)
(* Properties of the comment insertion                                     *)
(***************************************************************************)
CurrentComment == patch["add_comments"][apIdx]

\* new is old with Len(new) - Len(old) lines inserted at index k
InsertedAt(old, new, k) ==
    /\ Len(new) >= Len(old)
    /\ k \in 0..Len(old)
    /\ Slice(new, 0, k) = Slice(old, 0, k)
    /\ Slice(new, k + (Len(new) - Len(old)), Len(new)) = Slice(old, k, Len(old))

\* indices of the "0" lines of the 0/word marker pairs of doc
Markers(doc, word) == {i \in 0..(Len(doc) - 2) : IsMarker(doc, i, word)}

NumChunks(comment) == (Len(comment) + ChunkLen - 1) \div ChunkLen

\* C11: a comment with placement "file_start" is inserted immediately
\* before the first 0/SECTION marker of the document: the line after the
\* last inserted chunk-text line is the "0" line of the first SECTION
\* marker, also when lines precede that marker.
C11_FileStartBeforeFirstSection ==
    [][ (/\ apPc = "comment_loop"
         /\ GetPlacement(CurrentComment, "entities_end") = "file_start"
         /\ Markers(modified, T_SECTION) /= {}) =>
            LET k == SetMin(Markers(modified, T_SECTION))
                n == NumChunks(CurrentComment.comment)
            IN  /\ Len(modified') = Len(modified) + 2 * n
                /\ InsertedAt(modified, modified', k)
                /\ SetMin(Markers(modified', T_SECTION)) = k + 2 * n
      ]_vars

\* C12: a comment with placement "file_end" is inserted immediately before
\* the final 0/EOF marker pair: the two lines after the last inserted
\* chunk-text line are "0" and "EOF", whatever the same patch did before.
C12_FileEndBeforeEof ==
    [][ (/\ apPc = "comment_loop"
         /\ GetPlacement(CurrentComment, "entities_end") = "file_end"
         /\ Markers(modified, T_EOF) /= {}) =>
            LET k == SetMax(Markers(modified, T_EOF))
                n == NumChunks(CurrentComment.comment)
            IN  /\ Len(modified') = Len(modified) + 2 * n
                /\ InsertedAt(modified, modified', k)
                /\ IsMarker(modified', k + 2 * n, T_EOF)
      ]_vars

\* index of the "0" line of the 0/ENDSEC pair that closes the ENTITIES
\* section of doc, or -1 without such a section
EntitiesClose(doc) ==
    LET opens == {i \in Markers(doc, T_SECTION) :
                     /\ i + 3 < Len(doc)
                     /\ Strip(At(doc, i + 2)) = T_2
                     /\ Upper(Strip(At(doc, i + 3))) = T_ENTITIES}
    IN  IF opens = {} THEN -1
        ELSE LET closes == {j \in Markers(doc, T_ENDSEC) : j > SetMin(opens)}
             IN  IF closes = {} THEN -1 ELSE SetMin(closes)

\* C13: a comment with placement "entities_end", or with any placement
\* other than "file_start" and "file_end", is inserted immediately before
\* the 0/ENDSEC pair that closes ENTITIES, or at the end of the document
\* when there is no ENTITIES section; an unrecognized placement gives
\* exactly the output of "entities_end".
C13_EntitiesEndFallback ==
    [][ (/\ apPc = "comment_loop"
         /\ GetPlacement(CurrentComment, "entities_end") \notin {"file_start", "file_end"}) =>
            LET k == EntitiesClose(modified)
                n == NumChunks(CurrentComment.comment)
            IN  /\ Len(modified') = Len(modified) + 2 * n
                /\ InsertedAt(modified, modified', IF k >= 0 THEN k ELSE Len(modified))
                /\ k >= 0 => IsMarker(modified', k + 2 * n, T_ENDSEC)
                /\ modified' = AddComment(modified,
                                  [comment |-> CurrentComment.comment,
                                   placement |-> "entities_end"])
      ]_vars

\* a comment with the unrecognized placement "layer_end" now sits before
\* the 0/ENDSEC pair that closes ENTITIES
C13_Witness ==
    /\ apPc = "done"
    /\ patch = MakePatch(<<>>, <<>>, <<[comment |-> <<"T", "H", "K", " ", "3">>,
                                        placement |-> "layer_end"]>>)
    /\ EntitiesClose(lines) >= 0
    /\ At(modified, EntitiesClose(lines)) = T_999
    /\ At(modified, EntitiesClose(lines) + 1) = <<"T", "H", "K", " ", "3">>
    /\ IsMarker(modified, EntitiesClose(lines) + 2, T_ENDSEC)

\* the i-th chunk of the comment, as the line that holds it
ChunkText(comment, i) ==
    Strip(SubSeq(comment, ChunkLen * (i - 1) + 1,
                 IF ChunkLen * i < Len(comment) THEN ChunkLen * i ELSE Len(comment)))

\* the two-line groups of a comment, in chunk order
CommentGroups(comment) ==
    [j \in 1..(2 * NumChunks(comment)) |->
        IF j % 2 = 1 THEN T_999 ELSE ChunkText(comment, j \div 2)]

\* C14: a comment of length L becomes ceil(L/256) consecutive two-line
\* groups, each a "999" line followed by one chunk-text line of at most
\* 256 characters, contiguous at the insertion point and in the order of
\* the chunks, for every placement.
C14_ChunkGroups ==
    [][ apPc = "comment_loop" =>
            LET groups == CommentGroups(CurrentComment.comment)
            IN  /\ \A j \in DOMAIN groups : Len(groups[j]) <= ChunkLen
                /\ \E k \in 0..Len(modified) :
                      modified' = Slice(modified, 0, k) \o groups
                                  \o Slice(modified, k, Len(modified))
      ]_vars

\* a three-chunk comment was inserted as three consecutive groups
C14_Witness ==
    /\ apPc = "done"
    /\ HasKey(patch, "add_comments")
    /\ Len(patch["add_comments"]) = 1
    /\ patch["add_comments"][1].comment = LongComment
    /\ Len(modified) = Len(lines) + 6
    /\ \E k \in 0..(Len(modified) - 6) :
          /\ At(modified, k) = T_999 /\ Len(At(modified, k + 1)) = ChunkLen - 1
          /\ At(modified, k + 2) = T_999 /\ Len(At(modified, k + 3)) = ChunkLen - 1
          /\ At(modified, k + 4) = T_999 /\ Len(At(modified, k + 5)) = 3

(***************************************************************************)
(* Properties of the layer renames and of the section lookup               *)
(***************************************************************************)
CurrentRename == patch["layer_renames"][apIdx]

\* the lines (indices from 0) on which two documents of equal length differ
Changed(old, new) == {i \in 0..(Len(old) - 1) : At(old, i) /= At(new, i)}

ForbiddenChars == {"<", ">", "/", "\\", "\"", ":", ";", "?", "*", "|", "="}

\* C15: the name a layer rename stores is the requested name cut to its
\* first 255 characters with every forbidden character replaced by "_";
\* it has at most 255 characters and no forbidden character.
C15_StoredLayerName ==
    [][ (apPc = "rename_loop" /\ modified' /= modified) =>
            LET requested == CurrentRename.new
                kept      == IF Len(requested) > 255 THEN 255 ELSE Len(requested)
            IN  /\ Len(modified') = Len(modified)
                /\ \E i \in 0..(Len(modified) - 1) :
                      /\ Changed(modified, modified') = {i}
                      /\ Len(At(modified', i)) = kept
                      /\ \A c \in 1..kept :
                            At(modified', i)[c] =
                               IF requested[c] \in ForbiddenChars THEN "_" ELSE requested[c]
                      /\ \A c \in 1..kept : At(modified', i)[c] \notin ForbiddenChars
      ]_vars

\* a requested name of 258 characters was stored as 255 characters, its
\* ":" and "*" replaced
C15_Witness ==
    /\ apPc = "done"
    /\ patch = MakePatch(<<>>, <<[index |-> 0, new |-> LongName,
                                   placement |-> "update_layer_0"]>>, <<>>)
    /\ Len(modified) = Len(lines)
    /\ \E i \in 0..(Len(modified) - 1) :
          /\ Changed(lines, modified) = {i}
          /\ Len(At(modified, i)) = 255
          /\ At(modified, i)[2] = "_" /\ At(modified, i)[5] = "_"

\* the patch without one of its categories
Without(pt, key) == [k \in DOMAIN pt \ {key} |-> pt[k]]

\* C16: a category whose target section is absent is skipped and the other
\* categories still apply: without a HEADER section the header_updates
\* change nothing and the call yields what the patch without them yields;
\* likewise for layer_renames without a TABLES section; the loops of the
\* other categories run over the entries of the patch.
C16_MissingSectionSkipped ==
    /\ ~SectionFound(Section(lines, T_HEADER)) =>
          /\ apPc \in {"header_updates", "layer_renames"} => modified = lines
          /\ apPc /= "header_loop"
          /\ apPc = "done" => modified = apply_patch(lines, Without(patch, "header_updates"))
    /\ ~SectionFound(Section(lines, T_TABLES)) =>
          /\ apPc /= "rename_loop"
          /\ apPc = "done" => modified = apply_patch(lines, Without(patch, "layer_renames"))
    /\ apPc = "rename_loop" => apIdx \in DOMAIN patch["layer_renames"]
    /\ apPc = "comment_loop" => apIdx \in DOMAIN patch["add_comments"]

\* without a HEADER section the header update was skipped and the comment
\* of the same patch was inserted
C16_Witness ==
    /\ apPc = "done"
    /\ ~SectionFound(Section(lines, T_HEADER))
    /\ HasKey(patch, "header_updates")
    /\ patch["header_updates"][1] = C1_Entry
    /\ HasKey(patch, "add_comments")
    /\ Len(modified) = Len(lines) + 2
    /\ \A i \in 0..(Len(modified) - 2) : At(modified, i + 1) /= T_USERR1

\* declaration blocks of var_name between the HEADER marker of doc and the
\* first ENDSEC line after it
HeaderDeclarations(doc, var_name) ==
    LET opens == {i \in Markers(doc, T_SECTION) :
                     /\ i + 3 < Len(doc)
                     /\ Upper(Strip(At(doc, i + 3))) = T_HEADER}
    IN  IF opens = {} THEN {}
        ELSE LET s      == SetMin(opens)
                 closes == {j \in (s + 4)..(Len(doc) - 1) :
                               Upper(Strip(At(doc, j))) = T_ENDSEC}
                 e      == IF closes = {} THEN Len(doc) ELSE SetMin(closes)
             IN  {i \in (s + 4)..(e - 2) :
                     Strip(At(doc, i)) = T_9 /\ At(doc, i + 1) = var_name}

\* C17: a patch with one valid before_endsec entry for a variable v,
\* applied to a document and then again to the resulting document, leaves
\* two new declaration blocks of v in the HEADER section, 8 lines more
\* than the original; applied twice to the original document it yields
\* the same output both times.
C17_BeforeEndsecDoubleInsertion ==
    (/\ apPc = "done"
     /\ patch = MakePatch(<<C1_Entry>>, <<>>, <<>>)
     /\ SectionFound(Section(lines, T_HEADER))) =>
        LET again == apply_patch(modified, patch)
        IN  /\ modified = apply_patch(lines, patch)
            /\ Len(again) = Len(lines) + 8
            /\ Cardinality(HeaderDeclarations(again, T_USERR1))
                 = Cardinality(HeaderDeclarations(lines, T_USERR1)) + 2

(***************************************************************************)
(* Properties of the validator on missing and contradicting sources        *)
(***************************************************************************)
\* no source holds a record of the part: its key is missing or its value is
\* empty
NoSourceRecord ==
    /\ part_data.has_pdf => part_data.pdf_data = "empty"
    /\ part_data.has_qif => part_data.qif_data = NoRecord
    /\ part_data.has_step => part_data.step_data = NoRecord

\* C18: when no source produced a record of the part, validation reports
\* the no-metadata error (not consistent, no unified record) and
\* process_part calls no renderer and returns no annotation instructions;
\* also for a part record that carries the pdf_data, qif_data and step_data
\* keys with empty values.
C18_NoMetadataError ==
    (Validated /\ NoSourceRecord) =>
        /\ ~validation.is_consistent
        /\ validation.unified_metadata = EmptyUnified
        /\ validation.error_message = NoMetadataMessage
        /\ llmCalls = 0
        /\ "annotation_instructions" \notin DOMAIN ppResult

\* C19: QIF material "AISI 304" and STEP material "Al 6061" for the same
\* part give is_consistent = false with a material mismatch among the
\* validation errors, and no renderer call and no annotation instructions.
C19_MaterialMismatch ==
    (/\ Validated
     /\ part_data.has_qif /\ part_data.qif_data.material = Str(T_AISI304)
     /\ part_data.has_step /\ part_data.step_data.material = Str(T_Al6061)) =>
        /\ ~validation.is_consistent
        /\ \E i \in DOMAIN validation.unified_metadata.validation_errors :
              validation.unified_metadata.validation_errors[i].field = "Material mismatch"
        /\ llmCalls = 0
        /\ "annotation_instructions" \notin DOMAIN ppResult

\* C20: thickness normalization drives the equality check only: two
\* thickness values with the same first numeric token are no
\* contradiction, and the thickness of the unified record and of its
\* sources map is the source's original value (a QIF "3.0 mm" stays the
\* string "3.0 mm").
C20_NormalizationComparesOnly ==
    (Validated /\ part_data.has_qif /\ part_data.has_step) =>
        LET u  == validation.unified_metadata
            q  == part_data.qif_data.thickness
            st == part_data.step_data.thickness
        IN  /\ (/\ Present(q) /\ Present(st)
                /\ normalize_thickness(q) /= None
                /\ normalize_thickness(q) = normalize_thickness(st)) =>
                   "Thickness mismatch" \notin
                       {u.validation_errors[i].field : i \in DOMAIN u.validation_errors}
            /\ (q = Str(T_3_0mm) /\ st = FloatV(3000)) =>
                   /\ u.thickness = FloatV(3000)
                   /\ "Thickness mismatch" \notin
                         {u.validation_errors[i].field : i \in DOMAIN u.validation_errors}
            /\ (q = Str(T_3_0mm) /\ ~Present(st)) => u.thickness = Str(T_3_0mm)
            /\ u.thickness \in {q, st, NA}
            /\ u.sources["QIF"].thickness = q
            /\ u.sources["STEP"].thickness = st

\* QIF "3.0 mm" and STEP 3.0: consistent, and the STEP value is stored
C20_Witness ==
    /\ ppPc = "returned"
    /\ part_data.has_qif /\ part_data.has_step
    /\ part_data.qif_data.thickness = Str(T_3_0mm)
    /\ part_data.step_data.thickness = FloatV(3000)
    /\ validation.is_consistent
    /\ validation.unified_metadata.thickness = FloatV(3000)
    /\ validation.unified_metadata.sources["QIF"].thickness = Str(T_3_0mm)

(***************************************************************************)
(* Further properties of the thickness inference                           *)
(***************************************************************************)
\* a distance (thousandths of a mm) outside [0.6, 25.0] mm
OutOfRange(d) == d < 600 \/ d > 25000

AllOutOfRange(s) == \A i \in DOMAIN s : OutOfRange(s[i].d)

Members(s, t) ==
    {i \in DOMAIN s : ~OutOfRange(s[i].d) /\ Round2(s[i].d) = t}

MemberArea(s, t) ==
    SumSeq([i \in DOMAIN s |-> IF i \in Members(s, t) THEN s[i].a ELSE 0])

Clusters(s) == {Round2(s[i].d) : i \in {j \in DOMAIN s : ~OutOfRange(s[j].d)}}

\* score(t) of the claim times 10 * total * max_area * min_thickness
ClaimScore(s, t) ==
    LET total    == Cardinality({i \in DOMAIN s : ~OutOfRange(s[i].d)})
        max_area == SetMax({MemberArea(s, u) : u \in Clusters(s)})
        min_t    == SetMin(Clusters(s))
    IN  4 * Cardinality(Members(s, t)) * max_area * min_t
        + 3 * MemberArea(s, t) * total * min_t
        + 3 * (min_t - Abs(t - min_t)) * total * max_area

\* C28: ties resolve to the smallest value: mode_thickness is the smallest
\* cluster with the largest membership count, area_thickness the smallest
\* cluster with the largest summed area, and among the candidates with the
\* highest confidence score the smallest is returned.
C28_TiesToSmallest ==
    (thkPc = "done" /\ Clusters(samples) /= {}) =>
        LET C == Clusters(samples)
        IN  /\ mode_thickness(samples) =
                  SetMin({t \in C : \A u \in C :
                             Cardinality(Members(samples, u))
                                <= Cardinality(Members(samples, t))})
            /\ area_thickness(samples) =
                  SetMin({t \in C : \A u \in C :
                             MemberArea(samples, u) <= MemberArea(samples, t)})
            /\ thkResult.method = "highest_confidence" =>
                  thkResult.value =
                     SetMin({t \in C : \A u \in C :
                                ClaimScore(samples, u) <= ClaimScore(samples, t)})

\* the samples with the out-of-range ones removed
InRangeOnly(s) == SelectSeq(s, LAMBDA x : ~OutOfRange(x.d))

\* C29: samples with a distance outside [0.6, 25.0] mm are discarded before
\* any aggregation: the result for a sample sequence is the result for the
\* sequence without its out-of-range samples, and a returned thickness is
\* never below 0.6 or above 25.0; for analyze_distances (hundredths) and
\* for _calculate_thickness (thousandths).
C29_OutOfRangeDiscarded ==
    /\ (thkPc = "done" /\ InRangeOnly(samples) /= <<>>) =>
          /\ thkResult = analyze_distances(InRangeOnly(samples), setOrder)
          /\ thkResult.value /= NoneThickness
          /\ 60 <= thkResult.value /\ thkResult.value <= 2500
    /\ (thkPc = "done_simple" /\ InRangeOnly(samples) /= <<>>) =>
          /\ thkResult = calculate_thickness(InRangeOnly(samples))
          /\ thkResult.value /= NoneThickness
          /\ 600 <= thkResult.value /\ thkResult.value <= 25000
    /\ (thkPc \in {"done", "done_simple"} /\ InRangeOnly(samples) = <<>>) =>
          thkResult.value = NoneThickness

\* C30: when none of the first three rules applies, the returned thickness
\* is a retained cluster value that maximizes
\*   0.4*count(t)/total + 0.3*area(t)/max_area + 0.3*(1 - |t - min|/min)
\* over the retained cluster values, and the returned occurrence count is
\* the membership count of that cluster.
C30_HighestConfidence ==
    (/\ thkPc = "done"
     /\ Clusters(samples) /= {}
     /\ ~Rule1(samples) /\ ~Rule2(samples) /\ ~Rule3(samples)) =>
        /\ thkResult.value \in Clusters(samples)
        /\ \A u \in Clusters(samples) :
              ClaimScore(samples, u) <= ClaimScore(samples, thkResult.value)
        /\ thkResult.count = Cardinality(Members(samples, thkResult.value))

\* the score decides between two clusters: 2.00 (two samples, area 200)
\* wins over 3.00 (one sample, area 400)
C30_Witness ==
    /\ thkPc = "done"
    /\ samples = << [d |-> 2000, a |-> 100], [d |-> 3000, a |-> 400],
                    [d |-> 2000, a |-> 100] >>
    /\ ~Rule1(samples) /\ ~Rule2(samples) /\ ~Rule3(samples)
    /\ thkResult.method = "highest_confidence"
    /\ ClaimScore(samples, 200) /= ClaimScore(samples, 300)

(***************************************************************************)
(* Further properties of the patch engine                                  *)
(***************************************************************************)
\* a header_updates entry that before_endsec applies: a variable of
\* $USERI1..5 / $USERR1..5, group code 40 or 70
ValidBeforeEndsec(e) ==
    /\ PatternVar(e.var)
    /\ e.gcode \in {40, 70}
    /\ GetPlacement(e, "before_endsec") = "before_endsec"

\* indices at which a declaration block of entry e starts in doc
BlocksOf(doc, e) ==
    {i \in 0..(Len(doc) - 4) :
        /\ Strip(At(doc, i)) = T_9
        /\ At(doc, i + 1) = e.var
        /\ Strip(At(doc, i + 2)) = IntToChars(e.gcode)
        /\ At(doc, i + 3) = PyStr(e.value)}

\* C22: within one call every valid before_endsec entry is applied against
\* the document as it stands when the entry is reached: with n >= 1 such
\* entries (and no other) on a document with a HEADER section, the output
\* has exactly 4n more lines than the input and holds a declaration block
\* for each of the n entries, in patch order.
C22_EveryBeforeEndsecApplied ==
    (/\ apPc = "done"
     /\ DOMAIN patch = {"header_updates"}
     /\ \A i \in DOMAIN patch["header_updates"] :
           ValidBeforeEndsec(patch["header_updates"][i])
     /\ SectionFound(Section(lines, T_HEADER))) =>
        LET hu == patch["header_updates"]
        IN  /\ Len(modified) = Len(lines) + 4 * Len(hu)
            /\ \A i \in DOMAIN hu :
                  BlocksOf(modified, hu[i]) \ BlocksOf(lines, hu[i]) /= {}
            /\ \A i, j \in DOMAIN hu :
                  (i < j /\ hu[i] /= hu[j]) =>
                     SetMax(BlocksOf(modified, hu[i])) < SetMax(BlocksOf(modified, hu[j]))

\* number of 0/word marker pairs of doc
MarkerCount(doc, word) == Cardinality(Markers(doc, word))

\* C23: no mutation splits a record: every 0/SECTION, 0/ENDSEC and 0/EOF
\* marker pair of the document is still a pair of adjacent lines after
\* each mutation, and every inserted block lies between two
\* group-code/value pairs (at an even line index), never between a
\* group-code line and its value line.
C23_NoRecordSplit ==
    [][ (apPc \in {"header_loop", "rename_loop", "comment_loop"}) =>
          /\ \A word \in {T_SECTION, T_ENDSEC, T_EOF} :
                MarkerCount(modified', word) >= MarkerCount(modified, word)
          /\ (Len(modified') > Len(modified) =>
                 (\E k \in 0..Len(modified) :
                     k % 2 = 0 /\ InsertedAt(modified, modified', k)))
      ]_vars

\* a layer record of the TABLES section of doc: index of its 0/LAYER
\* marker, group-code lines read with blanks stripped
LayerMarks(doc) ==
    LET t == Section(doc, T_TABLES)
    IN  IF ~SectionFound(t) THEN {}
        ELSE {i \in t[1]..(t[2] - 2) :
                 Strip(At(doc, i)) = T_0 /\ Upper(Strip(At(doc, i + 1))) = T_LAYER}

\* index of the name line of the layer record at m: the line after its
\* first group-code-2 line
NameLine(doc, m) ==
    SetMin({j \in (m + 2)..(Len(doc) - 1) : Strip(At(doc, j - 1)) = T_2 /\ (j - m) % 2 = 1})

\* C24: a rename for index i changes exactly one line when TABLES holds
\* more than i layer records, counted in encounter order: the name line of
\* the i-th record, which receives the sanitized name; otherwise the
\* document is unchanged; also when group-code lines carry blanks.
C24_RenameByIndex ==
    [][ apPc = "rename_loop" =>
          LET marks == LayerMarks(modified)
              i     == IF GetPlacement(CurrentRename, "update_specific_layer") = "update_layer_0"
                       THEN 0 ELSE CurrentRename.index
          IN  /\ Len(modified') = Len(modified)
              /\ IF i < Cardinality(marks)
                 THEN LET m == CHOOSE x \in marks :
                                  Cardinality({y \in marks : y < x}) = i
                      IN  /\ At(modified', NameLine(modified, m)) = Sanitize(CurrentRename.new)
                          /\ Changed(modified, modified') \subseteq {NameLine(modified, m)}
                 ELSE modified' = modified
      ]_vars

\* the last two lines of doc
LastTwo(doc) == Slice(doc, Len(doc) - 2, Len(doc))

\* C27: for a document whose last two lines are the 0/EOF pair, the last
\* two lines of the output of apply_patch are still that pair: no header
\* block and no comment group is placed after the end-of-file marker,
\* also for an entities_end or fallback comment on a document without a
\* closed ENTITIES section.
C27_EofStaysLast ==
    (/\ apPc = "done"
     /\ Len(lines) >= 2
     /\ IsMarker(lines, Len(lines) - 2, T_EOF)) =>
        LastTwo(modified) = LastTwo(lines)

(***************************************************************************)
(* Further properties of validation and of the pipeline                    *)
(***************************************************************************)

\* C26: when validation is consistent and the unified thickness is not
\* "N/A", the unified thickness normalizes to a number and that number is
\* the one thickness value the sources agree on; a status string of the
\* STEP extractor never becomes the unified thickness.
C26_UnifiedThicknessIsNumber ==
    (/\ Validated
     /\ validation.is_consistent
     /\ validation.unified_metadata.thickness /= NA) =>
        LET u == validation.unified_metadata
        IN  /\ normalize_thickness(u.thickness) /= None
            /\ thicknesses(u.sources) = {normalize_thickness(u.thickness)}
            /\ u.thickness /= Str(T_ReadError)

\* C25: the pipeline applies the patch it rendered: for a part whose
\* validation is consistent and whose renderer returned the patch P, the
\* patch stage reads P as its patch and the annotated document it writes is
\* apply_patch(original document, P).
C25_PipelineAppliesRenderedPatch ==
    (/\ ppPc = "patched"
     /\ validation.is_consistent
     /\ HasKey(ppResult, "annotation_instructions")) =>
        /\ patch = ppResult["annotation_instructions"]
        /\ modified = apply_patch(lines, ppResult["annotation_instructions"])

====
